---- MODULE Spec2Model ----
(***************************************************************************)
(* Model of remotefs `src/fs/file/mod.rs`: the Entry tagged union over     *)
(* Directory and File, its uniform accessors and its two downcasts.        *)
(*                                                                         *)
(* A caller owns one Entry built from public fields (the structs have no   *)
(* constructor and no validation), calls the `&self` accessors any number  *)
(* of times, and may finally consume the entry with unwrap_file or         *)
(* unwrap_dir, which either hands the inner value over or panics.          *)
(*                                                                         *)
(* Strings (String, PathBuf) are sequences of one-character strings.       *)
(* Option<T> is a record [some, v].  Every call returns a tagged value     *)
(* [tag, val]; a panic is the tagged value with tag "panic".               *)
(***************************************************************************)
EXTENDS Integers, Sequences, FiniteSets

VARIABLES entry, live, op, ret, panicked

vars == <<entry, live, op, ret, panicked>>

(* ------------------------------ bounds --------------------------------- *)

MaxNameLen == 3

MaxPathLen == 3

MaxExtLen == 1

MaxSize == 1

(* ------------------------------ values --------------------------------- *)

Chars == {".", "a", "/"}

ExtChars == {"a"}

StrUpTo(S, n) == UNION {[1..k -> S] : k \in 0..n}

None == [some |-> FALSE, v |-> <<>>]

Some(x) == [some |-> TRUE, v |-> x]

NoneN == [some |-> FALSE, v |-> 0]

SomeN(x) == [some |-> TRUE, v |-> x]

\* Slip in Metadata::default(): an unknown owner defaults to owner id 0.
Metadata_default_owner_zero ==
    [size |-> 0, uid |-> SomeN(0), gid |-> NoneN, created |-> NoneN,
     modified |-> NoneN, accessed |-> NoneN, symlink |-> None]

\* Metadata::default(): size 0, nothing else populated.
Metadata_default ==
    [size |-> 0, uid |-> NoneN, gid |-> NoneN, created |-> NoneN,
     modified |-> NoneN, accessed |-> NoneN, symlink |-> None]

\* A Metadata a backend filled in: every field populated.
Metadata_filled(s) ==
    [size |-> s, uid |-> SomeN(0), gid |-> SomeN(0), created |-> SomeN(s),
     modified |-> SomeN(s), accessed |-> SomeN(s), symlink |-> Some(<<"/">>)]

Metadatas == {Metadata_default} \cup {Metadata_filled(s) : s \in 1..MaxSize}

Names == StrUpTo(Chars, MaxNameLen)

Paths == StrUpTo(Chars, MaxPathLen)

Extensions == {None} \cup {Some(s) : s \in StrUpTo(ExtChars, MaxExtLen)}

\* struct Directory { name, path, metadata }
Directory(n, p, m) == [name |-> n, path |-> p, metadata |-> m]

\* struct File { name, path, extension, metadata }
File(n, p, x, m) ==
    [name |-> n, path |-> p, extension |-> x, metadata |-> m]

Directories ==
    {Directory(n, p, m) : n \in Names, p \in Paths, m \in Metadatas}

Files ==
    {File(n, p, x, m) : n \in Names, p \in Paths, x \in Extensions,
                        m \in Metadatas}

\* enum Entry { Directory(Directory), File(File) }
Entry_Directory(dir) == [variant |-> "Directory", inner |-> dir]

Entry_File(file) == [variant |-> "File", inner |-> file]

Entries ==
    {Entry_Directory(d) : d \in Directories} \cup {Entry_File(f) : f \in Files}

Ok(t, x) == [tag |-> t, val |-> x]

Panic(msg) == [tag |-> "panic", val |-> msg]

NoCall == [tag |-> "nocall", val |-> ""]

\* str::starts_with(char)
StartsWith(s, c) == Len(s) > 0 /\ s[1] = c

(* -------------------- std::path, Unix flavour -------------------------- *)

\* The segments of p between '/' separators, empty segments included.
RECURSIVE Split(_)
Split(p) ==
    IF \A i \in 1..Len(p) : p[i] # "/" THEN <<p>>
    ELSE LET k == CHOOSE i \in 1..Len(p) :
                      p[i] = "/" /\ \A j \in 1..(i - 1) : p[j] # "/"
         IN <<SubSeq(p, 1, k - 1)>> \o Split(SubSeq(p, k + 1, Len(p)))

IsNormal(s) == s # <<>> /\ s # <<".">>

\* Path::components: the root if the path is absolute, a leading "." if it
\* is relative, then every non-empty segment other than ".".  The root is
\* written <<"/">>, the current directory <<".">>, the parent <<".", ".">>;
\* no normal component can be any of the three.
Components(p) ==
    LET segs == Split(p)
        lead == IF StartsWith(p, "/") THEN << <<"/">> >>
                ELSE IF segs[1] = <<".">> THEN << <<".">> >>
                ELSE <<>>
    IN lead \o SelectSeq(segs, IsNormal)

\* PartialEq for Path / PathBuf: equal component sequences, so "a" = "a/",
\* "/" = "//" = "/." and "." = "./", while "" # "." and "a" # "./a".
PathEq(p, q) == Components(p) = Components(q)

\* Path::file_name: the last component if it is a normal one.
FileName(p) ==
    LET comps == Components(p)
    IN IF comps = <<>> THEN None
       ELSE IF comps[Len(comps)] \in {<<"/">>, <<".">>, <<".", ".">>}
            THEN None
       ELSE Some(comps[Len(comps)])

\* PathBuf::join / push: an absolute argument replaces the base.
Join(base, q) ==
    IF StartsWith(q, "/") THEN q
    ELSE IF base # <<>> /\ base[Len(base)] # "/" THEN base \o <<"/">> \o q
    ELSE base \o q

\* A name that is one normal path component.
NormalName(n) ==
    /\ n # <<>>
    /\ \A i \in 1..Len(n) : n[i] # "/"
    /\ n # <<".">>
    /\ n # <<".", ".">>

\* The extension the name alone would give: the suffix after the last '.',
\* absent without a '.' or when the only '.' is the leading one.
DeriveExt(n) ==
    LET dots == {i \in 1..Len(n) : n[i] = "."}
    IN IF dots = {} THEN None
       ELSE IF dots = {1} THEN None
       ELSE LET k == CHOOSE i \in dots : \A j \in dots : j <= i
            IN Some(SubSeq(n, k + 1, Len(n)))

(* ------------------------- derived PartialEq --------------------------- *)

\* #[derive(PartialEq)] struct Directory: field by field, the path by
\* PathBuf's equality.
DirectoryEq(d1, d2) ==
    /\ d1.name = d2.name
    /\ PathEq(d1.path, d2.path)
    /\ d1.metadata = d2.metadata

\* #[derive(PartialEq)] struct File
FileEq(f1, f2) ==
    /\ f1.name = f2.name
    /\ PathEq(f1.path, f2.path)
    /\ f1.extension = f2.extension
    /\ f1.metadata = f2.metadata

\* #[derive(PartialEq)] enum Entry: same variant and equal payloads.
EntryEq(e1, e2) ==
    /\ e1.variant = e2.variant
    /\ IF e1.variant = "Directory" THEN DirectoryEq(e1.inner, e2.inner)
       ELSE FileEq(e1.inner, e2.inner)

(* ----------------------------- impl Entry ------------------------------ *)

\* Slip: the Directory arm hands out the name where the path is asked for.
path_name_arm(e) ==
    IF e.variant = "Directory" THEN Ok("Path", e.inner.name)
    ELSE Ok("Path", e.inner.path)

path(e) ==
    IF e.variant = "Directory" THEN Ok("Path", e.inner.path)
    ELSE Ok("Path", e.inner.path)

\* Slip: the File arm hands out the whole path where the name is asked for.
name_path_arm(e) ==
    IF e.variant = "Directory" THEN Ok("Str", e.inner.name)
    ELSE Ok("Str", e.inner.path)

name(e) ==
    IF e.variant = "Directory" THEN Ok("Str", e.inner.name)
    ELSE Ok("Str", e.inner.name)

metadata(e) ==
    IF e.variant = "Directory" THEN Ok("Metadata", e.inner.metadata)
    ELSE Ok("Metadata", e.inner.metadata)

\* Slip: the extension is recomputed from the name for either variant.
extension_from_name(e) == Ok("OptStr", DeriveExt(e.inner.name))

extension(e) ==
    IF e.variant = "Directory" THEN Ok("OptStr", None)
    ELSE Ok("OptStr", e.inner.extension)

\* Slip: the pattern accepts any variant.
is_dir_any(e) == Ok("Bool", e.variant \in {"Directory", "File"})

is_dir(e) == Ok("Bool", e.variant = "Directory")

is_file(e) == Ok("Bool", e.variant = "File")

\* Slip: a '.' anywhere in the name counts as hidden.
is_hidden_contains(e) ==
    Ok("Bool", \E i \in 1..Len(name(e).val) : name(e).val[i] = ".")

\* Slip: the first character is indexed without a length check.
is_hidden_indexed(e) ==
    IF Len(name(e).val) = 0 THEN Panic("index out of bounds")
    ELSE Ok("Bool", name(e).val[1] = ".")

is_hidden(e) == Ok("Bool", StartsWith(name(e).val, "."))

\* Slip: a mismatch yields an empty File instead of a panic.
unwrap_file_default(e) ==
    IF e.variant = "File" THEN Ok("File", e.inner)
    ELSE Ok("File", File(<<>>, <<>>, None, Metadata_default))

unwrap_file(e) ==
    IF e.variant = "File" THEN Ok("File", e.inner)
    ELSE Panic("unwrap_file: not a File")

\* Slip: the Directory is rebuilt and its metadata is lost on the way.
unwrap_dir_rebuilt(e) ==
    IF e.variant = "Directory"
    THEN Ok("Directory", Directory(e.inner.name, e.inner.path, Metadata_default))
    ELSE Panic("unwrap_dir: not a Directory")

unwrap_dir(e) ==
    IF e.variant = "Directory" THEN Ok("Directory", e.inner)
    ELSE Panic("unwrap_dir: not a Directory")

(* ------------------------------ actions -------------------------------- *)

Init ==
    /\ entry \in Entries
    /\ live = TRUE
    /\ op = "new"
    /\ ret = NoCall
    /\ panicked = FALSE

\* A call taking &self: the entry stays with the caller.
Borrow(o, r) ==
    /\ live
    /\ op' = o
    /\ ret' = r
    /\ panicked' = (r.tag = "panic")
    /\ live' = (r.tag # "panic")
    /\ UNCHANGED entry

\* A call taking self: the entry is moved into the call.
Consume(o, r) ==
    /\ live
    /\ op' = o
    /\ ret' = r
    /\ panicked' = (r.tag = "panic")
    /\ live' = FALSE
    /\ UNCHANGED entry

CallPath == Borrow("path", path(entry))

CallName == Borrow("name", name(entry))

CallMetadata == Borrow("metadata", metadata(entry))

CallExtension == Borrow("extension", extension(entry))

CallIsDir == Borrow("is_dir", is_dir(entry))

CallIsFile == Borrow("is_file", is_file(entry))

CallIsHidden == Borrow("is_hidden", is_hidden(entry))

CallUnwrapFile == Consume("unwrap_file", unwrap_file(entry))

CallUnwrapDir == Consume("unwrap_dir", unwrap_dir(entry))

Next ==
    \/ CallPath
    \/ CallName
    \/ CallMetadata
    \/ CallExtension
    \/ CallIsDir
    \/ CallIsFile
    \/ CallIsHidden
    \/ CallUnwrapFile
    \/ CallUnwrapDir

Spec == Init /\ [][Next]_vars

TypeOK ==
    /\ entry \in Entries
    /\ live \in BOOLEAN
    /\ panicked \in BOOLEAN
    /\ op \in {"new", "path", "name", "metadata", "extension", "is_dir",
               "is_file", "is_hidden", "unwrap_file", "unwrap_dir"}

(* ------------------------------ claims --------------------------------- *)

IsDirectory == entry.variant = "Directory"

IsFile == entry.variant = "File"

Accessors ==
    {"path", "name", "metadata", "extension", "is_dir", "is_file",
     "is_hidden"}

\* C1: a downcast to the wrong variant panics and never yields a value:
\* unwrap_file on a Directory entry and unwrap_dir on a File entry panic,
\* whatever the fields are, and the caller gets no File or Directory.
C1_MismatchPanics ==
    /\ IsDirectory => unwrap_file(entry).tag = "panic"
    /\ IsFile => unwrap_dir(entry).tag = "panic"
    /\ (op = "unwrap_file" /\ IsDirectory) =>
           (panicked /\ ret.tag = "panic" /\ ~live)
    /\ (op = "unwrap_dir" /\ IsFile) =>
           (panicked /\ ret.tag = "panic" /\ ~live)

C1_Witness ==
    /\ op = "unwrap_file"
    /\ IsDirectory
    /\ entry.inner.name = <<"a">>
    /\ entry.inner.metadata # Metadata_default
    /\ panicked

\* C2: exactly one of is_dir() and is_file() is true; is_dir() is true
\* exactly for a Directory entry and is_file() exactly for a File entry.
C2_VariantExclusive ==
    /\ is_dir(entry).val # is_file(entry).val
    /\ is_dir(entry).val = IsDirectory
    /\ is_file(entry).val = IsFile
    /\ op = "is_dir" => (ret.tag = "Bool" /\ ret.val = IsDirectory)
    /\ op = "is_file" => (ret.tag = "Bool" /\ ret.val = IsFile)

C2_Witness == op = "is_dir" /\ IsFile /\ ret.tag = "Bool" /\ ret.val = FALSE

\* C3: a downcast to the matching variant returns the inner value with
\* every field unchanged.
C3_MatchReturnsInner ==
    /\ (op = "unwrap_dir" /\ IsDirectory) =>
           /\ ret.tag = "Directory"
           /\ ret.val.name = entry.inner.name
           /\ ret.val.path = entry.inner.path
           /\ ret.val.metadata = entry.inner.metadata
           /\ DOMAIN ret.val = {"name", "path", "metadata"}
           /\ ~panicked
    /\ (op = "unwrap_file" /\ IsFile) =>
           /\ ret.tag = "File"
           /\ ret.val.name = entry.inner.name
           /\ ret.val.path = entry.inner.path
           /\ ret.val.extension = entry.inner.extension
           /\ ret.val.metadata = entry.inner.metadata
           /\ ~panicked

C3_Witness ==
    /\ op = "unwrap_dir"
    /\ IsDirectory
    /\ ret.tag = "Directory"
    /\ ret.val.path = <<"/", "a">>
    /\ ret.val.metadata # Metadata_default

\* C4: is_hidden() is true exactly when the name starts with '.', for
\* either variant, whatever the other fields are; an empty name is not
\* hidden.
C4_HiddenIffLeadingDot ==
    LET n == entry.inner.name
        lead == IF n = <<>> THEN FALSE ELSE Head(n) = "."
    IN /\ is_hidden(entry).tag = "Bool"
       /\ is_hidden(entry).val = lead
       /\ op = "is_hidden" => (ret.tag = "Bool" /\ ret.val = lead)

C4_Witness ==
    /\ op = "is_hidden"
    /\ IsDirectory
    /\ entry.inner.name = <<"a", ".">>
    /\ ret.tag = "Bool"
    /\ ret.val = FALSE

\* C5: extension() is None for every Directory entry, also when the name
\* contains a '.'; for a File entry it is exactly the stored extension.
C5_ExtensionByVariant ==
    /\ IsDirectory => extension(entry).val = None
    /\ IsFile => extension(entry).val = entry.inner.extension
    /\ (op = "extension" /\ IsDirectory) =>
           (ret.tag = "OptStr" /\ ret.val = None)
    /\ (op = "extension" /\ IsFile) =>
           (ret.tag = "OptStr" /\ ret.val = entry.inner.extension)

C5_Witness ==
    /\ op = "extension"
    /\ IsDirectory
    /\ entry.inner.name = <<"a", ".", "a">>
    /\ ret.val = None

\* C6 as stated: for every entry that can be constructed, the final
\* component of path() equals name().
C6_Original == FileName(path(entry).val) = Some(name(entry).val)

\* C6 amended: the fields are stored unchecked; the final component of
\* path() equals name() for every entry whose path is a parent path joined
\* with its name, the name being one normal component.
C6_JoinedPathEndsInName ==
    LET joined == /\ NormalName(entry.inner.name)
                  /\ \E parent \in Paths :
                         Join(parent, entry.inner.name) = entry.inner.path
    IN joined =>
           /\ FileName(path(entry).val) = Some(name(entry).val)
           /\ op = "path" => FileName(ret.val) = Some(entry.inner.name)
           /\ op = "name" => FileName(entry.inner.path) = Some(ret.val)

C6_Witness ==
    /\ op = "name"
    /\ IsFile
    /\ entry.inner.path = <<"a", "/", "a">>
    /\ ret.tag = "Str"
    /\ ret.val = <<"a">>

\* C7 as stated: for every File the extension is the one derived from the
\* name.
C7_Original == IsFile => extension(entry).val = DeriveExt(name(entry).val)

\* C7 amended: the extension of a File is the stored field, not derived
\* from or checked against the name; extension() is the suffix after the
\* name's last '.' exactly when that is what was stored.
C7_ExtensionIsStored ==
    (op = "extension" /\ IsFile) =>
        /\ ret.tag = "OptStr"
        /\ ret.val = entry.inner.extension
        /\ (ret.val = DeriveExt(entry.inner.name))
               = (entry.inner.extension = DeriveExt(entry.inner.name))

C7_Witness ==
    /\ op = "extension"
    /\ IsFile
    /\ entry.inner.name = <<"a", ".", "a">>
    /\ entry.inner.extension = Some(<<"a">>)
    /\ ret.val = Some(<<"a">>)

\* C8: the only calls that fail are unwrap_file on a Directory entry and
\* unwrap_dir on a File entry; every accessor returns a result for every
\* entry, also with an empty name, an empty path or no extension.
C8_OnlyMismatchFails ==
    /\ panicked =>
           \/ op = "unwrap_file" /\ IsDirectory
           \/ op = "unwrap_dir" /\ IsFile
    /\ op \in Accessors => (ret.tag # "panic" /\ ~panicked /\ live)
    /\ ret.tag = "panic" => panicked
    /\ \A r \in {path(entry), name(entry), metadata(entry), extension(entry),
                 is_dir(entry), is_file(entry), is_hidden(entry)} :
           r.tag # "panic"

C8_Witness ==
    /\ op = "is_hidden"
    /\ IsFile
    /\ entry.inner.name = <<>>
    /\ entry.inner.path = <<>>
    /\ entry.inner.extension = None
    /\ ret.tag = "Bool"
    /\ ~panicked

\* C9: path(), name() and metadata() return the active variant's own
\* fields; entries that differ only in name or path (the path compared as
\* the code compares paths) report equal metadata() and are unequal as
\* Entry values.
C9_AccessorsReturnFields ==
    /\ path(entry) = Ok("Path", entry.inner.path)
    /\ name(entry) = Ok("Str", entry.inner.name)
    /\ metadata(entry) = Ok("Metadata", entry.inner.metadata)
    /\ op = "path" => ret = Ok("Path", entry.inner.path)
    /\ op = "name" => ret = Ok("Str", entry.inner.name)
    /\ op = "metadata" => ret = Ok("Metadata", entry.inner.metadata)
    /\ EntryEq(entry, entry)
    /\ \A n \in Names :
           LET other == [entry EXCEPT !.inner.name = n]
           IN n # name(entry).val =>
                  /\ metadata(other).val = metadata(entry).val
                  /\ ~EntryEq(other, entry)
    /\ \A p \in Paths :
           LET other == [entry EXCEPT !.inner.path = p]
           IN ~PathEq(p, path(entry).val) =>
                  /\ metadata(other).val = metadata(entry).val
                  /\ ~EntryEq(other, entry)

C9_Witness ==
    /\ op = "path"
    /\ IsDirectory
    /\ entry.inner.name = <<"a">>
    /\ ret.tag = "Path"
    /\ ret.val = <<"/", "a">>

\* C10: an entry of either variant built with Metadata::default() reports
\* metadata().size = 0 and no owner id, group id, timestamp or symlink
\* target.
C10_DefaultMetadata ==
    (op = "metadata" /\ entry.inner.metadata = Metadata_default) =>
        /\ ret.tag = "Metadata"
        /\ ret.val.size = 0
        /\ ~ret.val.uid.some
        /\ ~ret.val.gid.some
        /\ ~ret.val.created.some
        /\ ~ret.val.modified.some
        /\ ~ret.val.accessed.some
        /\ ~ret.val.symlink.some

C10_Witness ==
    /\ op = "metadata"
    /\ IsFile
    /\ entry.inner.metadata = Metadata_default
    /\ ret.tag = "Metadata"
    /\ ret.val.size = 0
====
